---- MODULE Spec2Model ----
(***************************************************************************)
(* Expense ledger of src/main.py: one SQLite table `expenses` and the five *)
(* tools add_expense, list_expenses, edit_expense, delete_expense and      *)
(* summarize_expenses.  One caller's calls run to completion as one step   *)
(* each; two callers' calls interleave statement by statement.             *)
(***************************************************************************)
EXTENDS Integers, Sequences, FiniteSets, TLC

VARIABLES
  expenses,          \* rows of table expenses: records id, date, amount, category, subcategory, note
  sqlite_sequence,   \* AUTOINCREMENT counter kept by SQLite for the table (0: no entry yet)
  call,              \* the single caller's last tool call: its name and arguments
  result,            \* the Python value that call returned
  issued,            \* history: ids returned by add_expense, oldest first
  removed,           \* history: ids whose row delete_expense has removed
  frames,            \* per concurrent caller: where its call stands, its locals and its return value
  db_lock,           \* the caller whose connection holds the database write lock, or NoLock
  unclosed           \* connections whose call has ended and that nothing has closed yet

vars == <<expenses, sqlite_sequence, call, result, issued, removed, frames, db_lock, unclosed>>

conc == <<frames, db_lock, unclosed>>

----------------------------------------------------------------------------
(* Bounds of the model and the input values the calls draw from.           *)

MaxAdds == 2
MaxAggAdds == 3
MaxConcAdds == 2
MaxUnclosed == 1

Callers == {"A", "B"}
NoLock == "none"

\* An argument that is None (left at its default, or omitted) and a supplied value.
None == <<>>
Some(v) == <<v>>

Dates == {"2024-01-01", "2024-01-02"}
Amounts == {20, 50}
Categories == {"Food", "food"}

\* Inputs of the aggregation runs: three categories, two of them differing in case only.
AggDate == "2024-01-01"
AggAmounts == {20, 30}
AggEditAmount == 0 - 20
AggCategories == {"Food", "food", "Transport"}

Opt(S) == {None} \cup {Some(v) : v \in S}

\* add_expense(date, amount, category[, subcategory][, note]); None: argument omitted.
AddArgs ==
  [date : Dates, amount : Amounts, category : Categories,
   subcategory : Opt({"groceries"}), note : Opt({"lunch"})]

AggAddArgs ==
  [date : {AggDate}, amount : AggAmounts, category : AggCategories,
   subcategory : {None}, note : {None}]

\* edit_expense(expense_id, date=None, amount=None, category=None, subcategory=None, note=None)
EditArgs ==
  [date : Opt({"2024-01-02"}), amount : Opt({20}), category : Opt({"food"}),
   subcategory : Opt({""}), note : Opt({""})]

AggEditArgs ==
  [date : {None}, amount : Opt({AggEditAmount}), category : Opt({"food"}),
   subcategory : {None}, note : {None}]

----------------------------------------------------------------------------
(* Python values.                                                          *)

Dict(d) == [kind |-> "dict", value |-> d]
List(s) == [kind |-> "list", value |-> s]
PyNone == [kind |-> "None"]
Raise(exception) == [kind |-> "raise", value |-> exception]

\* Python's None passed for a parameter of add_expense (the annotations are not
\* enforced): sqlite3 binds it as SQL NULL.
SqlNull == "<NULL>"

\* A bound or stored value is NULL.  (Amounts are numbers and the other values
\* strings; their printed forms are compared, since a number and a string are
\* not.)
IsNull(v) == ToString(v) = ToString(SqlNull)

\* add_expense's keyword defaults: subcategory: str = "", note: str = "".
BindDefault(arg, default) == IF arg = None THEN default ELSE arg[1]

----------------------------------------------------------------------------
(* The table.                                                              *)

Columns == <<"id", "date", "amount", "category", "subcategory", "note">>

Max2(a, b) == IF a >= b THEN a ELSE b

MaxRowid(rows) ==
  IF rows = {} THEN 0
  ELSE CHOOSE m \in {r.id : r \in rows} : \A r \in rows : r.id <= m

\* Variant: a plain INTEGER PRIMARY KEY, which takes the largest rowid now in the table plus one.
NextRowidNoAutoincrement(rows, seq) == MaxRowid(rows) + 1

\* id INTEGER PRIMARY KEY AUTOINCREMENT: one more than the largest rowid that
\* ever existed in the table, which sqlite_sequence remembers across deletes.
NextRowid(rows, seq) == Max2(MaxRowid(rows), seq) + 1

\* Variant: subcategory and note bound to each other's placeholder.
InsertRowSwappedOptional(rows, id, values) ==
  rows \cup {[id |-> id, date |-> values[1], amount |-> values[2],
              category |-> values[3], subcategory |-> values[5], note |-> values[4]]}

\* INSERT INTO expenses (date, amount, category, subcategory, note) VALUES (?, ?, ?, ?, ?)
InsertRow(rows, id, values) ==
  rows \cup {[id |-> id, date |-> values[1], amount |-> values[2],
              category |-> values[3], subcategory |-> values[4], note |-> values[5]]}

\* Variant: the existence check without its WHERE clause.
CountAllRows(rows, id) == Cardinality(rows)

\* SELECT COUNT(*) FROM expenses WHERE id = ?
CountById(rows, id) == Cardinality({r \in rows : r.id = id})

\* The SET clauses and bound values edit_expense collects, one per argument that
\* is not None, in the order date, amount, category, subcategory, note.
EditableColumns == <<"date", "amount", "category", "subcategory", "note">>

\* Variant: subcategory always assigned, None replaced by the default "".
EditAssignmentsSubcategoryAlways(args) ==
  LET supplied == SelectSeq(EditableColumns,
                            LAMBDA c : c = "subcategory" \/ args[c] # None)
  IN [i \in 1..Len(supplied) |->
        <<supplied[i],
          IF args[supplied[i]] = None THEN "" ELSE args[supplied[i]][1]>>]

\* The lists `fields` and `values` grow together, so entry i is the pair
\* <<column of fields[i], values[i]>>.
EditAssignments(args) ==
  LET supplied == SelectSeq(EditableColumns, LAMBDA c : args[c] # None)
  IN [i \in 1..Len(supplied) |-> <<supplied[i], args[supplied[i]][1]>>]

\* Variant: an UPDATE of all five columns, the omitted optional ones reset to "".
SetColumnsResetOmitted(row, assignments) ==
  [c \in DOMAIN row |->
     IF \E i \in 1..Len(assignments) : assignments[i][1] = c
     THEN assignments[CHOOSE i \in 1..Len(assignments) : assignments[i][1] = c][2]
     ELSE IF c \in {"subcategory", "note"} THEN "" ELSE row[c]]

\* One row after SET fields[1] = values[1], ..., fields[n] = values[n].
SetColumns(row, assignments) ==
  [c \in DOMAIN row |->
     IF \E i \in 1..Len(assignments) : assignments[i][1] = c
     THEN assignments[CHOOSE i \in 1..Len(assignments) : assignments[i][1] = c][2]
     ELSE row[c]]

\* UPDATE expenses SET <fields> WHERE id = ?, bound to values + [expense_id]
UpdateById(rows, assignments, id) ==
  {IF r.id = id THEN SetColumns(r, assignments) ELSE r : r \in rows}

\* Variant: DELETE without its WHERE clause.
DeleteAllRows(rows, id) == {}

\* DELETE FROM expenses WHERE id = ?
DeleteById(rows, id) == {r \in rows : r.id # id}

\* {"status": "error", "message": f"Expense with ID {expense_id} not found"}
NotFound(expense_id) ==
  Dict([status |-> "error",
        message |-> "Expense with ID " \o ToString(expense_id) \o " not found"])

\* SELECT id, date, amount, category, subcategory, note FROM expenses ORDER BY id ASC:
\* the rows as tuples in select-list order, smallest id first.
RowTuple(r) == [i \in 1..Len(Columns) |-> r[Columns[i]]]

\* Variant: ORDER BY id DESC.
RECURSIVE SelectOrderByIdDesc(_)
SelectOrderByIdDesc(rows) ==
  IF rows = {} THEN <<>>
  ELSE LET first == CHOOSE r \in rows : \A q \in rows : r.id >= q.id
       IN <<RowTuple(first)>> \o SelectOrderByIdDesc(rows \ {first})

RECURSIVE SelectOrderByIdAsc(_)
SelectOrderByIdAsc(rows) ==
  IF rows = {} THEN <<>>
  ELSE LET first == CHOOSE r \in rows : \A q \in rows : r.id <= q.id
       IN <<RowTuple(first)>> \o SelectOrderByIdAsc(rows \ {first})

\* dict(zip(cols, row))
DictZip(cols, row) ==
  [c \in {cols[i] : i \in 1..Len(cols)} |-> row[CHOOSE i \in 1..Len(cols) : cols[i] = c]]

\* SELECT SUM(amount) FROM expenses: NULL (None) over no rows.
RECURSIVE SumOfAmounts(_)
SumOfAmounts(rows) ==
  IF rows = {} THEN 0
  ELSE LET r == CHOOSE r \in rows : TRUE IN r.amount + SumOfAmounts(rows \ {r})

SqlSumAmount(rows) == IF rows = {} THEN None ELSE Some(SumOfAmounts(rows))

\* Python's `x or 0`: 0 when x is None or x is zero.
OrZero(x) == IF x = None THEN 0 ELSE IF x[1] = 0 THEN 0 ELSE x[1]

\* Variant: category compared without regard to case (COLLATE NOCASE).
LowerCase(str) == IF str = "Food" THEN "food" ELSE IF str = "Transport" THEN "transport" ELSE str

GroupByCategoryNoCase(rows) ==
  {<<LowerCase(r.category),
     SumOfAmounts({q \in rows : LowerCase(q.category) = LowerCase(r.category)})>> : r \in rows}

\* SELECT category, SUM(amount) as total FROM expenses GROUP BY category: one row
\* per category string; strings compare byte for byte (the column's default
\* BINARY collation), so "Food" and "food" are two groups.
GroupByCategory(rows) ==
  {<<r.category, SumOfAmounts({q \in rows : q.category = r.category})>> : r \in rows}

\* The orders in which the engine may hand the grouped rows to the sorter.
Orderings(S) ==
  {s \in [1..Cardinality(S) -> S] : \A i, j \in 1..Cardinality(S) : s[i] = s[j] => i = j}

\* Variant: ORDER BY total ASC.
RECURSIVE InsertByTotalAsc(_, _)
InsertByTotalAsc(sorted, x) ==
  IF sorted = <<>> THEN <<x>>
  ELSE IF sorted[1][2] <= x[2] THEN <<sorted[1]>> \o InsertByTotalAsc(Tail(sorted), x)
  ELSE <<x>> \o sorted

\* ORDER BY total DESC: x goes behind every row whose total is at least its own.
RECURSIVE InsertByTotalDesc(_, _)
InsertByTotalDesc(sorted, x) ==
  IF sorted = <<>> THEN <<x>>
  ELSE IF sorted[1][2] >= x[2] THEN <<sorted[1]>> \o InsertByTotalDesc(Tail(sorted), x)
  ELSE <<x>> \o sorted

RECURSIVE OrderByTotalDesc(_)
OrderByTotalDesc(s) ==
  IF s = <<>> THEN <<>>
  ELSE InsertByTotalDesc(OrderByTotalDesc(SubSeq(s, 1, Len(s) - 1)), s[Len(s)])

\* {row[0]: row[1] for row in rows}: a dict keeps its keys in insertion order and
\* a repeated key keeps its place and takes the later value.
RECURSIVE DictFromRows(_)
DictFromRows(s) ==
  IF s = <<>> THEN <<>>
  ELSE LET acc == DictFromRows(SubSeq(s, 1, Len(s) - 1))
           kv == s[Len(s)]
       IN IF \E i \in 1..Len(acc) : acc[i][1] = kv[1]
          THEN [i \in 1..Len(acc) |-> IF acc[i][1] = kv[1] THEN kv ELSE acc[i]]
          ELSE Append(acc, kv)

----------------------------------------------------------------------------
(* The tools.                                                              *)

\* A caller's activation of a tool: pc is the statement it executes next
\* ("returned" after the call ended), local holds the locals set so far.
Frame(pc, op, expense_id, args, local, failed, ret) ==
  [pc |-> pc, op |-> op, expense_id |-> expense_id, args |-> args,
   local |-> local, store_failed |-> failed, ret |-> ret]

Idle == Frame("returned", "none", 0, None, <<>>, FALSE, PyNone)

Init ==
  /\ expenses = {}
  /\ sqlite_sequence = 0
  /\ call = [op |-> "init_db"]
  /\ result = PyNone
  /\ issued = <<>>
  /\ removed = {}
  /\ frames = [p \in Callers |-> Idle]
  /\ db_lock = NoLock
  /\ unclosed = 0

\* Variant: the table is dropped and created anew.
CreateTableReplacing(db) == Some([rows |-> {}, seq |-> 0])

\* CREATE TABLE IF NOT EXISTS expenses (...) on a database file that holds the
\* table (Some) or does not (None): an existing table is left as it is.
CreateTableIfNotExists(db) ==
  IF db = None THEN Some([rows |-> {}, seq |-> 0]) ELSE db

\* init_db(), run when the module is loaded: on every start of the process after
\* the first one the file already holds the table.
init_db ==
  LET db == CreateTableIfNotExists(Some([rows |-> expenses, seq |-> sqlite_sequence]))
  IN /\ expenses' = db[1].rows
     /\ sqlite_sequence' = db[1].seq
     /\ call' = [op |-> "init_db"]
     /\ result' = PyNone
     /\ UNCHANGED <<issued, removed, conc>>

\* date TEXT NOT NULL, amount REAL NOT NULL, category TEXT NOT NULL: the INSERT
\* of a NULL there fails.  subcategory and note carry a default and no NOT NULL.
ViolatesNotNull(values) == IsNull(values[1]) \/ IsNull(values[2]) \/ IsNull(values[3])

add_expense(args) ==
  LET subcategory == BindDefault(args.subcategory, "")
      note == BindDefault(args.note, "")
      values == <<args.date, args.amount, args.category, subcategory, note>>
      lastrowid == NextRowid(expenses, sqlite_sequence)
  IN /\ call' = [op |-> "add_expense", args |-> args]
     /\ IF ViolatesNotNull(values)
        THEN /\ result' = Raise("sqlite3.IntegrityError")
             /\ UNCHANGED <<expenses, sqlite_sequence, issued>>
        ELSE /\ expenses' = InsertRow(expenses, lastrowid, values)
             /\ sqlite_sequence' = lastrowid
             /\ result' = Dict([status |-> "success", id |-> lastrowid])
             /\ issued' = Append(issued, lastrowid)
     /\ UNCHANGED <<removed, conc>>

edit_expense(expense_id, args) ==
  /\ call' = [op |-> "edit_expense", expense_id |-> expense_id, args |-> args]
  /\ UNCHANGED <<sqlite_sequence, issued, removed, conc>>
  /\ IF CountById(expenses, expense_id) = 0
     THEN /\ result' = NotFound(expense_id)
          /\ UNCHANGED expenses
     ELSE LET fields == EditAssignments(args)
          IN IF fields = <<>>
             THEN /\ result' = Dict([status |-> "warning",
                                     message |-> "No changes made - no fields provided"])
                  /\ UNCHANGED expenses
             ELSE /\ expenses' = UpdateById(expenses, fields, expense_id)
                  /\ result' = Dict([status |-> "success",
                                     message |-> "Expense " \o ToString(expense_id)
                                                   \o " updated successfully"])

delete_expense(expense_id) ==
  /\ call' = [op |-> "delete_expense", expense_id |-> expense_id]
  /\ UNCHANGED <<sqlite_sequence, issued, conc>>
  /\ IF CountById(expenses, expense_id) = 0
     THEN /\ result' = NotFound(expense_id)
          /\ UNCHANGED <<expenses, removed>>
     ELSE /\ expenses' = DeleteById(expenses, expense_id)
          /\ removed' = removed \cup {expense_id}
          /\ result' = Dict([status |-> "success",
                             message |-> "Expense " \o ToString(expense_id)
                                           \o " deleted successfully"])

list_expenses ==
  LET fetched == SelectOrderByIdAsc(expenses)
      cols == Columns
  IN /\ result' = List([i \in 1..Len(fetched) |-> DictZip(cols, fetched[i])])
     /\ call' = [op |-> "list_expenses"]
     /\ UNCHANGED <<expenses, sqlite_sequence, issued, removed, conc>>

summarize_expenses ==
  \E unsorted \in Orderings(GroupByCategory(expenses)) :
    LET total == OrZero(SqlSumAmount(expenses))
        by_category == DictFromRows(OrderByTotalDesc(unsorted))
    IN /\ result' = Dict([total |-> total, by_category |-> by_category])
       /\ call' = [op |-> "summarize_expenses"]
       /\ UNCHANGED <<expenses, sqlite_sequence, issued, removed, conc>>

ExpenseIds == 1..MaxAdds
AggExpenseIds == 1..MaxAggAdds

\* Calls with every field varying, on a ledger of up to MaxAdds records.
Next ==
  \/ \E args \in AddArgs : Len(issued) < MaxAdds /\ add_expense(args)
  \/ \E expense_id \in ExpenseIds, args \in EditArgs : edit_expense(expense_id, args)
  \/ \E expense_id \in ExpenseIds : delete_expense(expense_id)
  \/ list_expenses
  \/ summarize_expenses

Spec == Init /\ [][Next]_vars

\* Calls varying amount and category only, on a ledger of up to MaxAggAdds records.
NextAgg ==
  \/ \E args \in AggAddArgs : Len(issued) < MaxAggAdds /\ add_expense(args)
  \/ \E expense_id \in AggExpenseIds, args \in AggEditArgs : edit_expense(expense_id, args)
  \/ \E expense_id \in AggExpenseIds : delete_expense(expense_id)
  \/ list_expenses
  \/ summarize_expenses

SpecAgg == Init /\ [][NextAgg]_vars

\* Calls varying the text fields, the required ones possibly empty or None, the
\* optional ones omitted, given or None, on a ledger of up to MaxAdds records.
TextAddArgs ==
  [date : {"", "2024-01-01", SqlNull}, amount : {20}, category : {"", "Food", SqlNull},
   subcategory : Opt({"groceries", SqlNull}), note : Opt({"lunch", SqlNull})]

TextEditArgs ==
  [date : {None}, amount : {None}, category : {None},
   subcategory : Opt({""}), note : Opt({""})]

\* add_expense with None passed for the amount.
NullAmountAddArgs ==
  [date : {"2024-01-01"}, amount : {SqlNull}, category : {"Food"},
   subcategory : {None}, note : {None}]

NextText ==
  \/ \E args \in TextAddArgs : Len(issued) < MaxAdds /\ add_expense(args)
  \/ \E args \in NullAmountAddArgs : Len(issued) < MaxAdds /\ add_expense(args)
  \/ \E expense_id \in ExpenseIds, args \in TextEditArgs : edit_expense(expense_id, args)
  \/ \E expense_id \in ExpenseIds : delete_expense(expense_id)
  \/ list_expenses
  \/ summarize_expenses

SpecText == Init /\ [][NextText]_vars

\* The aggregation runs with the process restarted between calls.
NextRestart ==
  \/ NextAgg
  \/ init_db

SpecRestart == Init /\ [][NextRestart]_vars

----------------------------------------------------------------------------
(* Two callers.  Each tool opens a connection of its own with              *)
(* sqlite3.connect and runs its statements one at a time.  Executing a     *)
(* SELECT steps it once: a result with a row keeps the shared lock on the  *)
(* database file until the rows are fetched, a result without rows is      *)
(* finished at once and keeps no lock.  Either way the result is the table *)
(* as committed at the execute.  An INSERT, UPDATE or DELETE opens a       *)
(* transaction and takes the write lock, and leaving the with block        *)
(* commits it.  The commit needs the file to itself: while another caller  *)
(* holds the shared lock it times out, the transaction is rolled back and  *)
(* the error leaves the function.  No tool calls close() on its            *)
(* connection.                                                             *)

ConcExpenseIds == 1..MaxConcAdds

ConcAddArgs ==
  [date : {AggDate}, amount : {20}, category : {"Food"},
   subcategory : {None}, note : {None}]

ConcEditArgs ==
  [date : {None}, amount : Opt({30}), category : {None},
   subcategory : {None}, note : {None}]

\* The calls a caller may make, each as the frame it starts in.
AddCalls ==
  {Frame("insert", "add_expense", 0, args, <<>>, FALSE, PyNone) : args \in ConcAddArgs}

EditCalls ==
  {Frame("select", "edit_expense", id, args, <<>>, FALSE, PyNone) :
     id \in ConcExpenseIds, args \in ConcEditArgs}

DeleteCalls ==
  {Frame("select", "delete_expense", id, None, <<>>, FALSE, PyNone) : id \in ConcExpenseIds}

ListCall == Frame("select", "list_expenses", 0, None, <<>>, FALSE, PyNone)

SummarizeCall == Frame("select_total", "summarize_expenses", 0, None, <<>>, FALSE, PyNone)

Ready(p) == frames[p].pc = "returned"

\* The INSERTs done so far, committed (each raised the counter by one) or not.
AddsBegun == sqlite_sequence + Cardinality({q \in Callers : frames[q].pc = "commit_insert"})

\* The exceptions a failing statement raises: OperationalError (database is
\* locked, no such table, disk I/O error) or its base class DatabaseError (file
\* is not a database).
StoreErrors == {"sqlite3.OperationalError", "sqlite3.DatabaseError"}

\* The pcs at which a SELECT has been executed and its rows are not fetched yet.
FetchPcs == {"fetchall", "check", "total", "by_category"}

\* The caller of frame f holds the shared lock: its executed SELECT has a row.
\* COUNT(*) and SUM() always return one row; the rows of list_expenses and the
\* groups of summarize_expenses are none when the table is empty.
HoldsSharedLock(f) ==
  \/ f.pc \in {"check", "total"}
  \/ f.pc = "fetchall" /\ f.local[1] # <<>>
  \/ f.pc = "by_category" /\ f.local[2] # {}

SharedLocks == {q \in Callers : HoldsSharedLock(frames[q])}

CommitPcs == {"commit_insert", "commit_update", "commit_delete"}

\* The commit of caller p cannot get the file to itself.
CommitBlocked(p) == SharedLocks \ {p} # {}

\* The call of frame f ends with ret (a return value, or an exception leaving
\* the function).  The with block has committed or rolled back; the connection
\* is left open for the runtime to finalize.  Of the locals the frame keeps
\* the number of rows its UPDATE or DELETE changed.
Finish(p, f, ret) ==
  /\ unclosed < MaxUnclosed
  /\ unclosed' = unclosed + 1
  /\ frames' = [frames EXCEPT ![p] =
                  [f EXCEPT !.pc = "returned", !.ret = ret,
                            !.local = IF f.pc \in {"commit_update", "commit_delete"}
                                      THEN <<f.local[2]>> ELSE <<>>]]
  /\ UNCHANGED <<call, result>>

\* A SELECT of call c, or of the call in progress, is executed: the cursor
\* holds its result (local) and the caller stands before the fetch.
ExecuteSelect(p, f, pc, local) ==
  /\ frames' = [frames EXCEPT ![p] = [f EXCEPT !.pc = pc, !.local = local]]
  /\ UNCHANGED <<expenses, sqlite_sequence, call, result, issued, removed, db_lock, unclosed>>

\* The runtime finalizes a connection object that is no longer referenced.
finalize_connection ==
  /\ unclosed > 0
  /\ unclosed' = unclosed - 1
  /\ UNCHANGED <<expenses, sqlite_sequence, call, result, issued, removed, frames, db_lock>>

\* add_expense: the INSERT, in a transaction the statement opens.
add_insert(p, c) ==
  /\ Ready(p)
  /\ AddsBegun < MaxConcAdds
  /\ db_lock = NoLock
  /\ LET lastrowid == NextRowid(expenses, sqlite_sequence)
         rows == InsertRow(expenses, lastrowid,
                           <<c.args.date, c.args.amount, c.args.category,
                             BindDefault(c.args.subcategory, ""),
                             BindDefault(c.args.note, "")>>)
     IN frames' = [frames EXCEPT ![p] =
                     [c EXCEPT !.pc = "commit_insert", !.local = <<rows, lastrowid>>]]
  /\ db_lock' = p
  /\ UNCHANGED <<expenses, sqlite_sequence, call, result, issued, removed, unclosed>>

\* add_expense: return inside the with block, which commits.
add_commit(p) ==
  /\ frames[p].pc = "commit_insert"
  /\ ~CommitBlocked(p)
  /\ expenses' = frames[p].local[1]
  /\ sqlite_sequence' = frames[p].local[2]
  /\ issued' = Append(issued, frames[p].local[2])
  /\ db_lock' = NoLock
  /\ Finish(p, frames[p], Dict([status |-> "success", id |-> frames[p].local[2]]))
  /\ UNCHANGED removed

\* list_expenses: conn.execute of its one SELECT.
list_select(p, c) ==
  /\ Ready(p)
  /\ ExecuteSelect(p, c, "fetchall", <<SelectOrderByIdAsc(expenses)>>)

\* list_expenses: the rows are fetched and returned as dicts.
list_fetch(p) ==
  /\ frames[p].pc = "fetchall"
  /\ LET fetched == frames[p].local[1]
     IN Finish(p, frames[p], List([i \in 1..Len(fetched) |-> DictZip(Columns, fetched[i])]))
  /\ UNCHANGED <<expenses, sqlite_sequence, issued, removed, db_lock>>

\* edit_expense: conn.execute of the existence check.
edit_select(p, c) ==
  /\ Ready(p)
  /\ ExecuteSelect(p, c, "check", <<CountById(expenses, c.expense_id)>>)

\* edit_expense: the count is fetched; the two early returns.
edit_check(p) ==
  /\ frames[p].pc = "check"
  /\ frames[p].op = "edit_expense"
  /\ LET c == frames[p]
     IN IF c.local[1] = 0
        THEN Finish(p, c, NotFound(c.expense_id))
        ELSE IF EditAssignments(c.args) = <<>>
             THEN Finish(p, c, Dict([status |-> "warning",
                                     message |-> "No changes made - no fields provided"]))
             ELSE /\ frames' = [frames EXCEPT ![p] =
                                 [c EXCEPT !.pc = "update", !.local = <<>>]]
                  /\ UNCHANGED <<call, result, unclosed>>
  /\ UNCHANGED <<expenses, sqlite_sequence, issued, removed, db_lock>>

\* edit_expense: the UPDATE; local keeps the table it leaves and the number of
\* rows it changed.
edit_update(p) ==
  /\ frames[p].pc = "update"
  /\ db_lock = NoLock
  /\ LET f == frames[p]
         rows == UpdateById(expenses, EditAssignments(f.args), f.expense_id)
     IN frames' = [frames EXCEPT ![p] =
                     [f EXCEPT !.pc = "commit_update",
                               !.local = <<rows, CountById(expenses, f.expense_id)>>]]
  /\ db_lock' = p
  /\ UNCHANGED <<expenses, sqlite_sequence, call, result, issued, removed, unclosed>>

edit_commit(p) ==
  /\ frames[p].pc = "commit_update"
  /\ ~CommitBlocked(p)
  /\ expenses' = frames[p].local[1]
  /\ db_lock' = NoLock
  /\ Finish(p, frames[p],
            Dict([status |-> "success",
                  message |-> "Expense " \o ToString(frames[p].expense_id)
                                \o " updated successfully"]))
  /\ UNCHANGED <<sqlite_sequence, issued, removed>>

\* delete_expense: conn.execute of the existence check.
delete_select(p, c) ==
  /\ Ready(p)
  /\ ExecuteSelect(p, c, "check", <<CountById(expenses, c.expense_id)>>)

\* delete_expense: the count is fetched; the early return.
delete_check(p) ==
  /\ frames[p].pc = "check"
  /\ frames[p].op = "delete_expense"
  /\ LET c == frames[p]
     IN IF c.local[1] = 0
        THEN Finish(p, c, NotFound(c.expense_id))
        ELSE /\ frames' = [frames EXCEPT ![p] =
                            [c EXCEPT !.pc = "delete", !.local = <<>>]]
             /\ UNCHANGED <<call, result, unclosed>>
  /\ UNCHANGED <<expenses, sqlite_sequence, issued, removed, db_lock>>

\* delete_expense: the DELETE.
delete_delete(p) ==
  /\ frames[p].pc = "delete"
  /\ db_lock = NoLock
  /\ LET f == frames[p]
     IN frames' = [frames EXCEPT ![p] =
                     [f EXCEPT !.pc = "commit_delete",
                               !.local = <<DeleteById(expenses, f.expense_id),
                                           CountById(expenses, f.expense_id)>>]]
  /\ db_lock' = p
  /\ UNCHANGED <<expenses, sqlite_sequence, call, result, issued, removed, unclosed>>

delete_commit(p) ==
  /\ frames[p].pc = "commit_delete"
  /\ ~CommitBlocked(p)
  /\ expenses' = frames[p].local[1]
  /\ removed' = IF frames[p].local[2] > 0 THEN removed \cup {frames[p].expense_id}
                ELSE removed
  /\ db_lock' = NoLock
  /\ Finish(p, frames[p],
            Dict([status |-> "success",
                  message |-> "Expense " \o ToString(frames[p].expense_id)
                                \o " deleted successfully"]))
  /\ UNCHANGED <<sqlite_sequence, issued>>

\* summarize_expenses: conn.execute of SELECT SUM(amount).
summarize_select_total(p, c) ==
  /\ Ready(p)
  /\ ExecuteSelect(p, c, "total", <<SqlSumAmount(expenses)>>)

\* summarize_expenses: the sum is fetched, and `or 0`.
summarize_total(p) ==
  /\ frames[p].pc = "total"
  /\ frames' = [frames EXCEPT ![p] =
                  [frames[p] EXCEPT !.pc = "groups",
                                    !.local = <<OrZero(frames[p].local[1])>>]]
  /\ UNCHANGED <<expenses, sqlite_sequence, call, result, issued, removed, db_lock, unclosed>>

\* summarize_expenses: conn.execute of the GROUP BY query.
summarize_select_groups(p) ==
  /\ frames[p].pc = "groups"
  /\ ExecuteSelect(p, frames[p], "by_category",
                   <<frames[p].local[1], GroupByCategory(expenses)>>)

\* summarize_expenses: the groups are fetched; the returned dict.
summarize_groups(p) ==
  /\ frames[p].pc = "by_category"
  /\ \E unsorted \in Orderings(frames[p].local[2]) :
       Finish(p, frames[p],
              Dict([total |-> frames[p].local[1],
                    by_category |-> DictFromRows(OrderByTotalDesc(unsorted))]))
  /\ UNCHANGED <<expenses, sqlite_sequence, issued, removed, db_lock>>

\* The table, the counter and the histories once the transaction of caller p
\* is in the database file while its call raised: add_expense returned no id.
CommitStore(p) ==
  LET f == frames[p]
  IN /\ expenses' = f.local[1]
     /\ sqlite_sequence' = IF f.pc = "commit_insert" THEN f.local[2] ELSE sqlite_sequence
     /\ issued' = issued
     /\ removed' = IF f.pc = "commit_delete" /\ f.local[2] > 0
                   THEN removed \cup {f.expense_id} ELSE removed

\* The commit at the end of the with block fails: it times out because another
\* caller holds the shared lock ("database is locked"), or the file system
\* fails under it ("disk I/O error").  sqlite3 raises OperationalError and the
\* exception leaves the function.  The transaction is rolled back, or, when the
\* pages were written before the fault (the rollback journal is lost), its
\* change is in the store all the same.
commit_fails(p) ==
  /\ frames[p].pc \in CommitPcs
  /\ db_lock' = NoLock
  /\ Finish(p, [frames[p] EXCEPT !.store_failed = TRUE], Raise("sqlite3.OperationalError"))
  /\ \/ UNCHANGED <<expenses, sqlite_sequence, issued, removed>>
     \/ ~CommitBlocked(p) /\ CommitStore(p)

\* sqlite3.connect cannot open the database file: it raises before the with
\* block is entered and there is no connection to leave behind.
connect_fails(p, c) ==
  /\ Ready(p)
  /\ frames' = [frames EXCEPT ![p] =
                  [c EXCEPT !.pc = "returned", !.store_failed = TRUE,
                            !.ret = Raise("sqlite3.OperationalError")]]
  /\ UNCHANGED <<expenses, sqlite_sequence, call, result, issued, removed, db_lock, unclosed>>

\* The store fails in the first statement of call c (store unavailable, lock
\* timeout, statement error): sqlite3 raises, no tool catches it, the with block
\* rolls back and the exception leaves the function.
first_statement_fails(p, c) ==
  /\ Ready(p)
  /\ \E e \in StoreErrors : Finish(p, [c EXCEPT !.store_failed = TRUE], Raise(e))
  /\ UNCHANGED <<expenses, sqlite_sequence, issued, removed, db_lock>>

\* The store fails in the second statement of the call in progress.
second_statement_fails(p) ==
  /\ frames[p].pc \in {"update", "delete", "groups"}
  /\ \E e \in StoreErrors : Finish(p, [frames[p] EXCEPT !.store_failed = TRUE], Raise(e))
  /\ UNCHANGED <<expenses, sqlite_sequence, issued, removed, db_lock>>

NextConc ==
  \/ \E p \in Callers :
       \/ \E c \in AddCalls :
            add_insert(p, c) \/ connect_fails(p, c) \/ first_statement_fails(p, c)
       \/ \E c \in EditCalls :
            edit_select(p, c) \/ connect_fails(p, c) \/ first_statement_fails(p, c)
       \/ \E c \in DeleteCalls :
            delete_select(p, c) \/ connect_fails(p, c) \/ first_statement_fails(p, c)
       \/ list_select(p, ListCall) \/ connect_fails(p, ListCall)
            \/ first_statement_fails(p, ListCall)
       \/ summarize_select_total(p, SummarizeCall) \/ connect_fails(p, SummarizeCall)
            \/ first_statement_fails(p, SummarizeCall)
  \/ \E p \in Callers :
       \/ add_commit(p)
       \/ list_fetch(p)
       \/ edit_check(p)
       \/ edit_update(p)
       \/ edit_commit(p)
       \/ delete_check(p)
       \/ delete_delete(p)
       \/ delete_commit(p)
       \/ summarize_total(p)
       \/ summarize_select_groups(p)
       \/ summarize_groups(p)
       \/ commit_fails(p)
       \/ second_statement_fails(p)
  \/ finalize_connection

SpecConc == Init /\ [][NextConc]_vars

----------------------------------------------------------------------------
(* Properties.  In an action formula the unprimed variables are the store  *)
(* before the call and the primed ones the call, its result and the store  *)
(* after it.                                                               *)

Statuses == {"success", "warning", "error"}

Present(rows, id) == \E r \in rows : r.id = id

RowsWithId(rows, id) == {r \in rows : r.id = id}

OtherRows(rows, id) == {r \in rows : r.id # id}

NoneSupplied(args) == \A c \in DOMAIN args : args[c] = None

\* C1: the id each add_expense returns is strictly greater than every id an
\* earlier add_expense returned, whether or not those records still exist.
C1_AddIdsStrictlyIncrease ==
  /\ \A i, j \in 1..Len(issued) : i < j => issued[i] < issued[j]
  /\ call.op = "add_expense" =>
       /\ result.value.status = "success"
       /\ result.value.id = issued[Len(issued)]

\* An add_expense that followed the deletion of the record holding the largest id.
C1_Witness ==
  /\ call.op = "add_expense"
  /\ Len(issued) >= 2
  /\ issued[Len(issued) - 1] \in removed
  /\ \A r \in expenses : r.id = result.value.id \/ r.id < issued[Len(issued) - 1]

\* C2: edit_expense returns error when the id is absent (whatever is supplied),
\* warning when the id is present and no field is supplied, and success when the
\* id is present and at least one field is supplied.
C2_EditThreeWayStatus ==
  [][call'.op = "edit_expense" =>
       /\ result'.kind = "dict"
       /\ result'.value.status =
            IF ~Present(expenses, call'.expense_id) THEN "error"
            ELSE IF NoneSupplied(call'.args) THEN "warning"
            ELSE "success"]_vars

\* An edit of an absent id with all five fields supplied, on a non-empty store.
C2_Witness ==
  /\ call.op = "edit_expense"
  /\ \A c \in DOMAIN call.args : call.args[c] # None
  /\ ~Present(expenses, call.expense_id)
  /\ expenses # {}
  /\ result.value.status = "error"

\* C3: after a successful edit_expense the record holds the supplied value in
\* each supplied field, its prior value in every other field and its id, and
\* every other record is unchanged.
C3_EditAppliesSuppliedFieldsOnly ==
  [][(call'.op = "edit_expense" /\ result'.value.status = "success"
        /\ Present(expenses, call'.expense_id)) =>
       /\ \A old \in RowsWithId(expenses, call'.expense_id) :
            \E new \in expenses' :
              /\ RowsWithId(expenses', call'.expense_id) = {new}
              /\ new.id = old.id
              /\ \A c \in DOMAIN call'.args :
                   new[c] = IF call'.args[c] # None THEN call'.args[c][1] ELSE old[c]
       /\ OtherRows(expenses', call'.expense_id) = OtherRows(expenses, call'.expense_id)]_vars

\* A successful edit that supplied the empty string for subcategory and left date
\* and note out: the record has the empty subcategory and still its note "lunch",
\* beside another record.
C3_Witness ==
  /\ call.op = "edit_expense"
  /\ result.value.status = "success"
  /\ call.args.subcategory = Some("")
  /\ call.args.amount = Some(20)
  /\ call.args.note = None
  /\ call.args.date = None
  /\ \E r \in expenses :
       /\ r.id = call.expense_id
       /\ r.subcategory = ""
       /\ r.amount = 20
       /\ r.note = "lunch"
       /\ r.date = "2024-01-01"
  /\ OtherRows(expenses, call.expense_id) # {}

\* C4: an edit_expense with no field supplied, or with an id that is not in the
\* store, leaves the stored records, and so what list_expenses returns, as they were.
C4_EditNoOpLeavesStore ==
  [][(call'.op = "edit_expense"
        /\ (NoneSupplied(call'.args) \/ ~Present(expenses, call'.expense_id))) =>
       /\ expenses' = expenses
       /\ SelectOrderByIdAsc(expenses') = SelectOrderByIdAsc(expenses)]_vars

\* An edit with no field supplied of a present record whose subcategory and note
\* are not the defaults.
C4_Witness ==
  /\ call.op = "edit_expense"
  /\ NoneSupplied(call.args)
  /\ \E r \in expenses :
       r.id = call.expense_id /\ r.subcategory = "groceries" /\ r.note = "lunch"
  /\ result.value.status = "warning"

\* C5: delete_expense of a present id returns success and removes that record
\* only; of an absent id it returns error with a message naming the id and
\* leaves the store as it was; so a second delete of the same id right after a
\* successful one returns error.
C5_DeleteRemovesExactlyOne ==
  [][call'.op = "delete_expense" =>
       /\ result'.kind = "dict"
       /\ IF Present(expenses, call'.expense_id)
          THEN /\ result'.value.status = "success"
               /\ ~Present(expenses', call'.expense_id)
               /\ expenses' = OtherRows(expenses, call'.expense_id)
          ELSE /\ result'.value.status = "error"
               /\ result'.value.message =
                    "Expense with ID " \o ToString(call'.expense_id) \o " not found"
               /\ expenses' = expenses
       /\ (call.op = "delete_expense" /\ result.value.status = "success"
             /\ call'.expense_id = call.expense_id) => result'.value.status = "error"]_vars

\* A second delete of an id already deleted, answered with error, while other
\* records are in the store.
C5_Witness ==
  /\ call.op = "delete_expense"
  /\ call.expense_id \in removed
  /\ result.value.status = "error"
  /\ Cardinality(expenses) >= 2

\* C6: list_expenses returns exactly the records now in the store, each once, in
\* strictly ascending id order: as many as were created when none was deleted,
\* and the empty sequence on an empty store.
C6_ListIsStoreInIdOrder ==
  call.op = "list_expenses" =>
    /\ result.kind = "list"
    /\ Len(result.value) = Cardinality(expenses)
    /\ \A r \in expenses : \E i \in 1..Len(result.value) : result.value[i] = r
    /\ \A i, j \in 1..Len(result.value) : i < j => result.value[i].id < result.value[j].id
    /\ \A i \in 1..Len(result.value) : result.value[i].id \notin removed
    /\ removed = {} => Len(result.value) = Len(issued)
    /\ expenses = {} => result.value = <<>>

\* A listing of two records that remain after another was deleted.
C6_Witness ==
  /\ call.op = "list_expenses"
  /\ Len(result.value) = 2
  /\ removed # {}
  /\ result.value[1].id < result.value[2].id

\* C7: add_expense returns success with an id; the store then holds exactly one
\* record with that id, carrying the arguments, with the empty string for an
\* omitted subcategory or note; no record that was there before is changed.
C7_AddInsertsOneRecord ==
  [][call'.op = "add_expense" =>
       /\ result'.kind = "dict"
       /\ result'.value.status = "success"
       /\ ~Present(expenses, result'.value.id)
       /\ \E new \in expenses' :
            /\ RowsWithId(expenses', result'.value.id) = {new}
            /\ new.date = call'.args.date
            /\ new.amount = call'.args.amount
            /\ new.category = call'.args.category
            /\ new.subcategory =
                 IF call'.args.subcategory = None THEN "" ELSE call'.args.subcategory[1]
            /\ new.note = IF call'.args.note = None THEN "" ELSE call'.args.note[1]
            /\ expenses' \ {new} = expenses]_vars

\* An add_expense with a subcategory and without a note, into a store that held a record.
C7_Witness ==
  /\ call.op = "add_expense"
  /\ call.args.subcategory = Some("groceries")
  /\ call.args.note = None
  /\ \E r \in expenses :
       r.id = result.value.id /\ r.subcategory = "groceries" /\ r.note = ""
  /\ Cardinality(expenses) = 2

\* The sum of amount over the records of rows, taken id by id.
RECURSIVE AmountUpToId(_, _)
AmountUpToId(rows, n) ==
  IF n = 0 THEN 0
  ELSE AmountUpToId(rows, n - 1)
         + (IF Present(rows, n) THEN (CHOOSE r \in rows : r.id = n).amount ELSE 0)

AmountOf(rows) == AmountUpToId(rows, MaxRowid(rows))

\* C8: summarize_expenses returns as total the sum of amount over all records
\* (0 on an empty store) and as by_category one entry per distinct category
\* string in the store, compared exactly, each with the sum of amount over the
\* records of that category; by_category is empty on an empty store.
C8_SummaryTotals ==
  call.op = "summarize_expenses" =>
    LET total == result.value.total
        by_category == result.value.by_category
        keys == {by_category[i][1] : i \in 1..Len(by_category)}
    IN /\ total = AmountOf(expenses)
       /\ keys = {r.category : r \in expenses}
       /\ Len(by_category) = Cardinality(keys)
       /\ \A i \in 1..Len(by_category) :
            by_category[i][2] = AmountOf({r \in expenses : r.category = by_category[i][1]})
       /\ expenses = {} => (total = 0 /\ by_category = <<>>)

\* A summary of three records with "Food" and "food" as separate keys, the two
\* "Food" records summed.
C8_Witness ==
  /\ call.op = "summarize_expenses"
  /\ Cardinality(expenses) = 3
  /\ Len(result.value.by_category) = 2
  /\ \E i, j \in 1..2 :
       /\ result.value.by_category[i] = <<"Food", 50>>
       /\ result.value.by_category[j] = <<"food", 20>>
  /\ result.value.total = 70

\* C9: the entries of by_category stand in non-increasing order of their sums.
C9_ByCategoryDescending ==
  call.op = "summarize_expenses" =>
    \A i \in 1..(Len(result.value.by_category) - 1) :
      result.value.by_category[i][2] >= result.value.by_category[i + 1][2]

\* A summary of three categories with three different sums, one of them negative.
C9_Witness ==
  /\ call.op = "summarize_expenses"
  /\ Len(result.value.by_category) = 3
  /\ result.value.by_category[1][2] > result.value.by_category[2][2]
  /\ result.value.by_category[2][2] > result.value.by_category[3][2]
  /\ result.value.by_category[3][2] < 0

Tools ==
  {"add_expense", "list_expenses", "edit_expense", "delete_expense", "summarize_expenses"}

\* C10: every result of the five tools is a mapping with a status field whose
\* value is success, warning or error.
C10_EveryResultHasStatus ==
  call.op \in Tools =>
    /\ result.kind = "dict"
    /\ "status" \in DOMAIN result.value
    /\ result.value.status \in Statuses

\* C11: an add_expense with an empty date or an empty category is rejected before
\* it reaches the store: no record is inserted, no id is consumed and the result
\* is not status success.
C11_AddRejectsEmptyRequired ==
  [][(call'.op = "add_expense"
        /\ (call'.args.date = "" \/ call'.args.category = "")) =>
       /\ expenses' = expenses
       /\ sqlite_sequence' = sqlite_sequence
       /\ ~(result'.kind = "dict" /\ result'.value.status = "success")]_vars

\* The call of caller p has returned a mapping with the given status.
Returned(p, op) == frames[p].pc = "returned" /\ frames[p].op = op

ReturnedStatus(p, status) ==
  frames[p].ret.kind = "dict" /\ frames[p].ret.value.status = status

\* The step taken is the end of p's failed call: no connection is finalized and
\* no other caller moves.
FailedCallEnds(p) ==
  /\ frames'[p].store_failed
  /\ unclosed' >= unclosed
  /\ \A q \in Callers \ {p} : frames'[q].pc = frames[q].pc

\* C12: when the store fails during a statement of an operation, the operation
\* returns a structured result with status error instead of raising, and the
\* store is as it was before.
C12_StoreFailureIsErrorResult ==
  [][\A p \in Callers :
       FailedCallEnds(p) =>
         /\ frames'[p].ret.kind = "dict"
         /\ frames'[p].ret.value.status = "error"
         /\ expenses' = expenses
         /\ sqlite_sequence' = sqlite_sequence]_vars

\* The second half of C12 alone: a failed operation leaves the store as it was.
C12_FailureLeavesStore ==
  [][\A p \in Callers :
       FailedCallEnds(p) => expenses' = expenses /\ sqlite_sequence' = sqlite_sequence]_vars

\* C13: no interleaving lets edit_expense return success when its UPDATE changed
\* no record.
C13_EditSuccessChangedARecord ==
  \A p \in Callers :
    (Returned(p, "edit_expense") /\ ReturnedStatus(p, "success")) =>
      frames[p].local[1] >= 1

\* C14: of two callers' delete_expense calls on the same id at most one
\* returns success.
C14_AtMostOneDeleteSucceeds ==
  \A p, q \in Callers :
    (/\ p # q
     /\ Returned(p, "delete_expense") /\ Returned(q, "delete_expense")
     /\ frames[p].expense_id = frames[q].expense_id) =>
      ~(ReturnedStatus(p, "success") /\ ReturnedStatus(q, "success"))

IdsPresent(rows) == {r.id : r \in rows}

\* C15: once delete_expense has removed the record with an id, that id is
\* absent from the store after every later call, and edit_expense leaves the set
\* of ids present as it was.
C15_LifecycleOneWay ==
  [][/\ \A id \in removed' : ~Present(expenses', id)
     /\ call'.op = "edit_expense" => IdsPresent(expenses') = IdsPresent(expenses)]_vars

\* Record 1 was deleted, two records were added after that and one of them was
\* edited: ids 2 and 3 are present, 1 is not.
C15_Witness ==
  /\ removed = {1}
  /\ IdsPresent(expenses) = {2, 3}
  /\ call.op = "edit_expense"
  /\ result.value.status = "success"

\* C16: after an operation has finished, the connection it opened is closed.
C16_NoConnectionLeftOpen ==
  (\E p \in Callers : frames[p].pc = "returned" /\ frames[p].op # "none") => unclosed = 0

\* C17: every stored record has a non-null date, amount and category, and its
\* subcategory and note are never null, whatever add_expense and edit_expense
\* calls were made.
C17_NoNullField ==
  \A r \in expenses :
    /\ r.date # SqlNull
    /\ ~IsNull(r.amount)
    /\ r.category # SqlNull
    /\ r.subcategory # SqlNull
    /\ r.note # SqlNull

\* C18: init_db run on a store that holds the expenses table leaves every
\* stored record and the next-id counter as they were, however often it runs.
C18_InitDbLeavesStore ==
  [][call'.op = "init_db" =>
       /\ expenses' = expenses
       /\ sqlite_sequence' = sqlite_sequence]_vars

\* init_db has just run on a store holding records 2 and 3, record 1 deleted.
C18_Witness ==
  /\ call.op = "init_db"
  /\ IdsPresent(expenses) = {2, 3}
  /\ sqlite_sequence = 3
  /\ removed = {1}

RECURSIVE SumOfValues(_)
SumOfValues(by_category) ==
  IF by_category = <<>> THEN 0
  ELSE by_category[1][2] + SumOfValues(Tail(by_category))

\* C19: in every result of summarize_expenses the total equals the sum of the
\* values of by_category, whatever other callers commit meanwhile.
C19_TotalMatchesByCategory ==
  \A p \in Callers :
    (Returned(p, "summarize_expenses") /\ frames[p].ret.kind = "dict") =>
      frames[p].ret.value.total = SumOfValues(frames[p].ret.value.by_category)

====
